---- MODULE Spec2Model ----
(***************************************************************************)
(* Chunked transcription pipeline of backend/chunked_transcription.py:     *)
(* ChunkedTranscriptionService.transcribe_audio and the operations it      *)
(* calls (split_audio, transcribe_chunks_concurrent, transcribe_chunk,     *)
(* merge_segments, _merge_short_segments, cleanup_chunks).                 *)
(*                                                                         *)
(* Times are whole seconds.  A path is a sequence of components and a      *)
(* component is a sequence of string tokens, so that Path(), .stem,        *)
(* str.endswith and the "in" test act on it as they do on the string.      *)
(* A text is a sequence of one-character strings.                          *)
(***************************************************************************)
EXTENDS Integers, Sequences, FiniteSets, Bags, TLC

\* ------------------------------------------------------------ constants

DEFAULT_CHUNK_DURATION == 600

MAX_CONCURRENT_CHUNKS == 3

\* _merge_short_segments' default thresholds and the literal gap limit.
MinDuration == 2

MaxMergedDuration == 15

GapLimit == 1

\* ------------------------------------------------------------ bounds

\* A source splits into at most MaxChunks chunks.
MaxChunks == 3

\* At most this many os.remove calls of one cleanup raise.
MaxRemoveFailures == 1

\* The longest list given to the merger when it is followed step by step.
MaxSegs == 3

\* ------------------------------------------------------------ paths

DotName == <<".">>

NameA == <<"a", ".mp3">>

NameChunk0 == <<"chunk_", "0000", ".mp3">>

\* The audio_path arguments: "a.mp3", "./a.mp3", "chunk_0000.mp3".
AudioPaths == { <<NameA>>, <<DotName, NameA>>, <<NameChunk0>> }

\* str(Path(p)): pathlib drops the "." components of a path.
IsNotDot(name) == name # DotName

PathStr(p) == SelectSeq(p, IsNotDot)

\* Path(p).stem: the final component without its suffix.
Stem(p) ==
  LET name == p[Len(p)]
  IN  IF Len(name) > 1 THEN SubSeq(name, 1, Len(name) - 1) ELSE name

\* Path(p).parent
Parent(p) == SubSeq(p, 1, Len(p) - 1)

\* temp_dir = "cache/chunks"
TempDir == << <<"cache">>, <<"chunks">> >>

\* f"{i:04d}"
Fmt04(i) == <<"0000", "0001", "0002", "0003", "0004", "0005", "0006">>[i + 1]

\* chunk_dir / f"chunk_{i:04d}.mp3"
ChunkFile(dir, i) == Append(dir, <<"chunk_", Fmt04(i), ".mp3">>)

\* Path(self.temp_dir) / audio_path.stem
ChunkDir(p) == Append(TempDir, Stem(p))

\* path.endswith("chunk_0000.mp3")
EndsWithChunk0(p) ==
  LET name == p[Len(p)]
  IN  /\ Len(name) >= Len(NameChunk0)
      /\ SubSeq(name, Len(name) - Len(NameChunk0) + 1, Len(name)) = NameChunk0

\* "chunk_" in path
HasChunkToken(p) ==
  \E c \in 1..Len(p) : \E t \in 1..Len(p[c]) : p[c][t] = "chunk_"

\* ------------------------------------------------------------ texts

Whitespace == {" "}

\* sentence_endings; the CJK marks are written by name.
SentenceEndings == {".", "!", "?", "cjk_period", "cjk_bang", "cjk_question", "ellipsis"}

RECURSIVE LStrip(_)
LStrip(t) ==
  IF t # <<>> /\ Head(t) \in Whitespace THEN LStrip(Tail(t)) ELSE t

RECURSIVE RStrip(_)
RStrip(t) ==
  IF t # <<>> /\ t[Len(t)] \in Whitespace
  THEN RStrip(SubSeq(t, 1, Len(t) - 1))
  ELSE t

\* str.strip()
Strip(t) == RStrip(LStrip(t))

\* current_text and current_text[-1] in sentence_endings
EndsWithPunctuation(t) ==
  LET s == Strip(t) IN s # <<>> /\ s[Len(s)] \in SentenceEndings

\* ------------------------------------------------------------ segments

\* TranscriptionSegment(index, start_time, end_time, text)
Seg(i, s, e, t) == [index |-> i, start_time |-> s, end_time |-> e, text |-> t]

\* TranscriptionSegment.to_dict
ToDict(seg) ==
  [index |-> seg.index, start_time |-> seg.start_time,
   end_time |-> seg.end_time, text |-> seg.text]

\* What whisper_provider.transcribe may return for an audio file of duration
\* d, in file-local time: segments in order, index = position (the providers
\* build the list with enumerate), texts stripped.  Either nothing, or a short
\* fragment, a sentence end and a last fragment at the very end of the file.
Transcripts(d) ==
  { <<>>,
    << Seg(0, 0, 1, <<"a">>), Seg(1, 1, 3, <<"b", ".">>), Seg(2, d, d, <<"c">>) >> }

\* What whisper_provider.transcribe may raise.
ProviderErrors == {"ProviderError"}

\* Mutant: the chunk-local timestamps are kept.
AdjustSegmentNoShift(seg, chunk) ==
  [index |-> seg.index,
   start_time |-> seg.start_time,
   end_time |-> seg.end_time,
   text |-> seg.text,
   chunk_index |-> chunk.index]

\* transcribe_chunk: shift the chunk's segments by its offset, tag them.
AdjustSegment(seg, chunk) ==
  [index |-> seg.index,
   start_time |-> seg.start_time + chunk.start_time,
   end_time |-> seg.end_time + chunk.start_time,
   text |-> seg.text,
   chunk_index |-> chunk.index]

TranscribeChunk(chunk, segments) ==
  [k \in 1..Len(segments) |-> AdjustSegment(segments[k], chunk)]

\* sorted(segments, key=lambda s: s["start_time"]): a stable sort, so x goes
\* behind every element whose key is not greater.
InsertByStart(sorted, x) ==
  LET n == Cardinality({k \in 1..Len(sorted) :
                          sorted[k].start_time <= x.start_time})
  IN  SubSeq(sorted, 1, n) \o <<x>> \o SubSeq(sorted, n + 1, Len(sorted))

\* Mutant: the list is left in completion order.
SortedNot(segments) == segments

RECURSIVE SortedByStart(_)
SortedByStart(segments) ==
  IF segments = <<>>
  THEN <<>>
  ELSE InsertByStart(SortedByStart(SubSeq(segments, 1, Len(segments) - 1)),
                     segments[Len(segments)])

\* Mutant: the gap between the two segments is not looked at.
ShouldMergeAnyGap(current, seg) ==
  /\ current.end_time - current.start_time < MinDuration
  /\ ~EndsWithPunctuation(current.text)
  /\ seg.end_time - current.start_time <= MaxMergedDuration

\* Mutant: current is extended whatever its duration.
ShouldMergeAnyDuration(current, seg) ==
  /\ ~EndsWithPunctuation(current.text)
  /\ seg.end_time - current.start_time <= MaxMergedDuration
  /\ seg.start_time - current.end_time < GapLimit

\* should_merge of _merge_short_segments
ShouldMerge(current, seg) ==
  /\ current.end_time - current.start_time < MinDuration
  /\ ~EndsWithPunctuation(current.text)
  /\ seg.end_time - current.start_time <= MaxMergedDuration
  /\ seg.start_time - current.end_time < GapLimit

\* Mutant: the text is joined, the end of current is kept.
ExtendTextOnly(current, seg) ==
  [current EXCEPT !.text = Strip(current.text) \o <<" ">> \o Strip(seg.text)]

\* the merge branch: extend current by seg
Extend(current, seg) ==
  [current EXCEPT !.end_time = seg.end_time,
                  !.text = Strip(current.text) \o <<" ">> \o Strip(seg.text)]

RECURSIVE MergeLoop(_, _, _, _)
MergeLoop(segments, k, current, merged) ==
  IF k > Len(segments)
  THEN Append(merged, current)
  ELSE IF ShouldMerge(current, segments[k])
       THEN MergeLoop(segments, k + 1, Extend(current, segments[k]), merged)
       ELSE MergeLoop(segments, k + 1, segments[k], Append(merged, current))

\* _merge_short_segments
MergeShortSegments(segments) ==
  IF segments = <<>> THEN segments ELSE MergeLoop(segments, 2, segments[1], <<>>)

\* Mutant: the tag is not removed.
PopNothing(seg, key) == seg

\* seg.pop(key, None)
Pop(seg, key) == [f \in (DOMAIN seg) \ {key} |-> seg[f]]

\* the reindex loop of merge_segments
Reindex(merged) ==
  [k \in 1..Len(merged) |->
     Pop([merged[k] EXCEPT !.index = k - 1], "chunk_index")]

\* merge_segments without its progress event
MergeSegments(segments) == Reindex(MergeShortSegments(SortedByStart(segments)))

\* ------------------------------------------------------------ state

VARIABLES
  audio_path,      \* transcribe_audio's argument
  probe,           \* what ffprobe reports for the source (0: it failed)
  max_concurrent,  \* self.max_concurrent
  cleanup,         \* transcribe_audio's cleanup flag
  sink,            \* progress_callback: "none" or "callback" (which may raise)
  files,           \* the audio files on disk
  dirs,            \* the scratch directories on disk
  pc,              \* where transcribe_audio stands
  num_chunks,      \* split_audio's num_chunks
  i,               \* split_audio's loop variable
  split_chunks,    \* split_audio's local list chunks
  chunks,          \* transcribe_audio's chunks
  jobs,            \* the executor's futures, one per chunk
  yielded,         \* the futures as_completed has handed out
  all_segments,    \* transcribe_chunks_concurrent's all_segments
  completed,       \* transcribe_chunks_concurrent's completed
  merged,          \* transcribe_audio's merged
  events,          \* the TranscriptionProgress records given to the sink
  error,           \* the exception in flight ("none": none)
  result,          \* the value of the return statement reached
  calls,           \* the paths whisper_provider.transcribe was called on
  extracted,       \* the files ffmpeg wrote in this invocation
  del_failed,      \* the paths whose os.remove or rmdir raised
  ms_pc,           \* where a call of _merge_short_segments stands
  ms_segments,     \* _merge_short_segments' argument segments
  ms_pos,          \* how many elements its for loop has taken
  ms_current,      \* its current: <<>> for None, <<record>> otherwise
  ms_merged,       \* its list merged
  ms_runs,         \* history: per element of ms_merged, the positions
                   \* <<first, last>> of the input elements it was built from
  tw_path,         \* two concurrent calls: the audio_path of each
  tw_pc,           \* where each of the two calls stands
  tw_chunks,       \* the chunk list of each
  tw_next,         \* the position of the chunk each transcribes next
  tw_disk,         \* the chunk files on disk, each with the call that wrote it
  tw_interference  \* history: what a call did to a chunk file of the other

pipeline ==
  <<audio_path, probe, max_concurrent, cleanup, sink, files, dirs, pc,
    num_chunks, i, split_chunks, chunks, jobs, yielded, all_segments,
    completed, merged, events, error, result, calls, extracted, del_failed>>

merger == <<ms_pc, ms_segments, ms_pos, ms_current, ms_merged, ms_runs>>

twin == <<tw_path, tw_pc, tw_chunks, tw_next, tw_disk, tw_interference>>

vars == <<pipeline, merger, twin>>

inputs == <<audio_path, probe, max_concurrent, cleanup, sink>>

\* self.chunk_duration (the singleton service is built with the defaults)
chunk_duration == DEFAULT_CHUNK_DURATION

\* The durations ffprobe may report: 0 and the multiples of half a window
\* that split into at most MaxChunks chunks.
Durations ==
  {k * (DEFAULT_CHUNK_DURATION \div 2) : k \in 0..(2 * MaxChunks - 1)}

\* ChunkInfo(index, path, start_time, duration)
ChunkInfo(idx, path, start, dur) ==
  [index |-> idx, path |-> path, start_time |-> start, duration |-> dur]

\* TranscriptionProgress(total_chunks, completed_chunks, current_chunk, status)
Progress(total, done, cur, status) ==
  [total_chunks |-> total, completed_chunks |-> done,
   current_chunk |-> cur, status |-> status]

\* if progress_callback: progress_callback(ev)
Notified(ev) == IF sink = "none" THEN events ELSE Append(events, ev)

\* Whether a call of the sink may raise.
SinkRaises == IF sink = "callback" THEN {TRUE, FALSE} ELSE {FALSE}

\* No call of _merge_short_segments is being followed step by step.
MergerIdle ==
  /\ ms_pc = "idle"
  /\ ms_segments = <<>>
  /\ ms_pos = 0
  /\ ms_current = <<>>
  /\ ms_merged = <<>>
  /\ ms_runs = <<>>

\* No pair of concurrent calls is being followed.
TwinIdle ==
  /\ tw_path = <<>>
  /\ tw_pc = <<>>
  /\ tw_chunks = <<>>
  /\ tw_next = <<>>
  /\ tw_disk = {}
  /\ tw_interference = {}

Init ==
  /\ MergerIdle
  /\ TwinIdle
  /\ audio_path \in AudioPaths
  /\ probe \in Durations
  /\ max_concurrent \in 1..MAX_CONCURRENT_CHUNKS
  /\ cleanup \in BOOLEAN
  /\ sink \in {"none", "callback"}
  /\ files \in {{PathStr(audio_path)}, {}}
  /\ dirs = {TempDir}
  /\ pc = "start"
  /\ num_chunks = 0
  /\ i = 0
  /\ split_chunks = <<>>
  /\ chunks = <<>>
  /\ jobs = <<>>
  /\ yielded = {}
  /\ all_segments = <<>>
  /\ completed = 0
  /\ merged = <<>>
  /\ events = <<>>
  /\ error = "none"
  /\ result = <<>>
  /\ calls = <<>>
  /\ extracted = {}
  /\ del_failed = {}

\* ------------------------------------------------------------ split_audio

\* num_chunks = int(total_duration / self.chunk_duration) + 1
NumChunks(total_duration) == (total_duration \div chunk_duration) + 1

\* start_time = i * self.chunk_duration
ChunkStart(k) == k * chunk_duration

\* duration = min(self.chunk_duration, total_duration - start_time)
ChunkLen(k, total_duration) ==
  IF chunk_duration <= total_duration - ChunkStart(k)
  THEN chunk_duration
  ELSE total_duration - ChunkStart(k)

\* Mutant: the loop runs over range(num_chunks) without the break.
LoopEndsNoBreak(k, n, total_duration) == k >= n

\* if duration <= 0: break (and the end of range(num_chunks))
LoopEnds(k, n, total_duration) == k >= n \/ ChunkLen(k, total_duration) <= 0

\* Mutant: a duration of zero is accepted.
DurationUnknownAccepted(total_duration) == FALSE

\* if total_duration == 0: get_audio_duration returns 0.0 when ffprobe fails
\* or its output cannot be read, and when the duration is zero.
DurationUnknown(total_duration) == total_duration = 0

\* An exception leaves the try block of transcribe_audio for its finally.
Raise(e) == /\ error' = e
            /\ pc' = "finally"

\* split_audio up to its extraction loop: the existence check, the probe, the
\* no-split return, the scratch directory and the chunking event.
SplitAudio ==
  /\ pc = "start"
  /\ UNCHANGED <<merger, twin>>
  /\ UNCHANGED <<inputs, files, i, split_chunks, jobs, yielded, all_segments,
                 completed, merged, result, calls, extracted, del_failed>>
  /\ IF PathStr(audio_path) \notin files
     THEN /\ Raise("FileNotFoundError")
          /\ UNCHANGED <<dirs, num_chunks, chunks, events>>
     ELSE IF DurationUnknown(probe)
     THEN /\ Raise("ValueError")
          /\ UNCHANGED <<dirs, num_chunks, chunks, events>>
     ELSE IF probe <= chunk_duration
     THEN /\ chunks' = <<ChunkInfo(0, PathStr(audio_path), 0, probe)>>
          /\ pc' = "dispatch"
          /\ UNCHANGED <<dirs, num_chunks, events, error>>
     ELSE /\ num_chunks' = NumChunks(probe)
          /\ dirs' = dirs \cup {ChunkDir(PathStr(audio_path))}
          /\ events' = Notified(Progress(NumChunks(probe), 0, 0, "chunking"))
          /\ UNCHANGED chunks
          /\ \E raised \in SinkRaises :
               IF raised
               THEN Raise("SinkError")
               ELSE pc' = "extract" /\ UNCHANGED error

\* Mutant: the failure is noted and the loop goes on with the next chunk.
ExtractionFailedDeferred ==
  /\ error' = "RuntimeError"
  /\ i' = i + 1
  /\ UNCHANGED <<files, split_chunks, chunks, extracted, pc>>

\* except subprocess.CalledProcessError: raise RuntimeError(...)
ExtractionFailed ==
  /\ Raise("RuntimeError")
  /\ UNCHANGED <<files, i, split_chunks, chunks, extracted>>

\* One iteration of the extraction loop: ffmpeg writes the chunk file and the
\* chunk is appended, or ffmpeg fails and RuntimeError is raised; after the
\* last iteration split_audio returns its list to transcribe_audio.
ExtractChunk ==
  /\ pc = "extract"
  /\ UNCHANGED <<merger, twin>>
  /\ UNCHANGED <<inputs, dirs, num_chunks, jobs, yielded, all_segments,
                 completed, merged, events, result, calls, del_failed>>
  /\ IF LoopEnds(i, num_chunks, probe)
     THEN /\ chunks' = split_chunks
          /\ pc' = "dispatch"
          /\ UNCHANGED <<files, i, split_chunks, error, extracted>>
     ELSE LET path == ChunkFile(ChunkDir(PathStr(audio_path)), i)
          IN  \/ /\ files' = files \cup {path}
                 /\ extracted' = extracted \cup {path}
                 /\ split_chunks' =
                      Append(split_chunks,
                             ChunkInfo(i, path, ChunkStart(i), ChunkLen(i, probe)))
                 /\ i' = i + 1
                 /\ UNCHANGED <<chunks, pc, error>>
              \/ ExtractionFailed

\* ------------------------------------------------------------ transcribe_audio

\* len(chunks) == 1 and chunks[0].path == audio_path
NoSplit == Len(chunks) = 1 /\ chunks[1].path = audio_path

\* A future of the executor: queued, running, ok (segs set) or failed (err set);
\* raw is what whisper_provider.transcribe returned inside the job.
Queued == [st |-> "queued", raw |-> <<>>, segs |-> <<>>, err |-> "none"]

\* Mutant: a future counts as done once a worker has taken its job.
FinishedStarted(k) == jobs[k].st # "queued"

Finished(k) == jobs[k].st \in {"ok", "failed"}

\* The branch after split_audio returned: the no-split path announces the
\* single transcription; otherwise transcribe_chunks_concurrent starts and
\* submits one transcribe_chunk job per chunk to the executor.
Dispatch ==
  /\ pc = "dispatch"
  /\ UNCHANGED <<merger, twin>>
  /\ UNCHANGED <<inputs, files, dirs, num_chunks, i, split_chunks, chunks,
                 yielded, merged, result, calls, extracted, del_failed>>
  /\ IF NoSplit
     THEN /\ events' = Notified(Progress(1, 0, 0, "transcribing"))
          /\ UNCHANGED <<jobs, all_segments, completed>>
          /\ \E raised \in SinkRaises :
               IF raised
               THEN Raise("SinkError")
               ELSE pc' = "fast" /\ UNCHANGED error
     ELSE /\ jobs' = [k \in 1..Len(chunks) |-> Queued]
          /\ all_segments' = <<>>
          /\ completed' = 0
          /\ pc' = "as_completed"
          /\ UNCHANGED <<events, error>>

\* The no-split path: one call of the provider on audio_path, to_dict on its
\* segments, the done event, return result.
FastTranscribe ==
  /\ pc = "fast"
  /\ UNCHANGED <<merger, twin>>
  /\ UNCHANGED <<inputs, files, dirs, num_chunks, i, split_chunks, chunks,
                 jobs, yielded, all_segments, completed, merged, extracted,
                 del_failed>>
  /\ calls' = Append(calls, PathStr(audio_path))
  /\ \/ \E e \in ProviderErrors :
          /\ Raise(e)
          /\ UNCHANGED <<events, result>>
     \/ \E segments \in Transcripts(chunks[1].duration) :
          /\ events' = Notified(Progress(1, 1, 0, "done"))
          /\ \E raised \in SinkRaises :
               IF raised
               THEN Raise("SinkError") /\ UNCHANGED result
               ELSE /\ result' = [k \in 1..Len(segments) |-> ToDict(segments[k])]
                    /\ pc' = "finally"
                    /\ UNCHANGED error

\* ------------------------------------------------------------ the executor

Running == {k \in DOMAIN jobs : jobs[k].st = "running"}

\* Mutant: one worker thread fewer than max_workers.
WorkerFreeOneLess(n) == Cardinality(Running) < n - 1

\* Mutant: a thread per submitted job, no limit.
WorkerFreeUnbounded(n) == TRUE

\* ThreadPoolExecutor(max_workers=n): a worker thread is free.
WorkerFree(n) == Cardinality(Running) < n

\* The work queue is first in, first out.
NextQueued(k) ==
  /\ jobs[k].st = "queued"
  /\ \A j \in DOMAIN jobs : jobs[j].st = "queued" => k <= j

\* A worker thread takes the next job and calls whisper_provider.transcribe
\* on the chunk's file (transcribe_chunk, line 177).
WorkerStart(k) ==
  /\ pc \in {"as_completed", "shutdown"}
  /\ k \in DOMAIN jobs
  /\ NextQueued(k)
  /\ WorkerFree(max_concurrent)
  /\ jobs' = [jobs EXCEPT ![k].st = "running"]
  /\ calls' = Append(calls, chunks[k].path)
  /\ UNCHANGED <<merger, twin>>
  /\ UNCHANGED <<inputs, files, dirs, pc, num_chunks, i, split_chunks, chunks,
                 yielded, all_segments, completed, merged, events, error,
                 result, extracted, del_failed>>

\* Mutant: the worker thread reports its chunk to the sink itself.
WorkerEventsNotify(k) ==
  Notified(Progress(Len(chunks), completed + 1, chunks[k].index, "transcribing"))

\* transcribe_chunk is not given progress_callback: the events the sink has
\* received are what they were when the job ends.
WorkerEvents(k) == events

\* The provider returns and transcribe_chunk shifts the segments, or the
\* provider raises: the future holds the list or the exception.
WorkerFinish(k) ==
  /\ pc \in {"as_completed", "shutdown"}
  /\ k \in DOMAIN jobs
  /\ jobs[k].st = "running"
  /\ \/ \E segments \in Transcripts(chunks[k].duration) :
          jobs' = [jobs EXCEPT ![k].st = "ok",
                               ![k].raw = segments,
                               ![k].segs = TranscribeChunk(chunks[k], segments)]
     \/ \E e \in ProviderErrors :
          jobs' = [jobs EXCEPT ![k].st = "failed", ![k].err = e]
  /\ events' = WorkerEvents(k)
  /\ UNCHANGED <<merger, twin>>
  /\ UNCHANGED <<inputs, files, dirs, pc, num_chunks, i, split_chunks, chunks,
                 yielded, all_segments, completed, merged, error,
                 result, calls, extracted, del_failed>>

\* ------------------------------------------------------------ transcribe_chunks_concurrent

\* Mutant: the list is assigned instead of extended.
ExtendListLossy(list, segments) == segments

\* all_segments.extend(segments)
ExtendList(list, segments) == list \o segments

\* Mutant: the event is built before completed is incremented.
CompletionEventStale(k) ==
  Progress(Len(chunks), completed, chunks[k].index, "transcribing")

\* TranscriptionProgress(total_chunks=total, completed_chunks=completed,
\* current_chunk=chunk.index, status="transcribing"), after completed += 1
CompletionEvent(k) ==
  Progress(Len(chunks), completed + 1, chunks[k].index, "transcribing")

\* One iteration of the as_completed loop, in the coroutine's thread: a
\* finished future not handed out before is taken; its segments are added and
\* the transcribing event emitted, or its exception (or the sink's) is
\* re-raised into the with block's exit.
Collect(k) ==
  /\ pc = "as_completed"
  /\ k \in DOMAIN jobs
  /\ k \notin yielded
  /\ Finished(k)
  /\ yielded' = yielded \cup {k}
  /\ UNCHANGED <<merger, twin>>
  /\ UNCHANGED <<inputs, files, dirs, num_chunks, i, split_chunks, chunks,
                 jobs, merged, result, calls, extracted, del_failed>>
  /\ IF jobs[k].st = "failed"
     THEN /\ error' = jobs[k].err
          /\ pc' = "shutdown"
          /\ UNCHANGED <<all_segments, completed, events>>
     ELSE /\ all_segments' = ExtendList(all_segments, jobs[k].segs)
          /\ completed' = completed + 1
          /\ events' = Notified(CompletionEvent(k))
          /\ \E raised \in SinkRaises :
               IF raised
               THEN error' = "SinkError" /\ pc' = "shutdown"
               ELSE UNCHANGED <<error, pc>>

\* Mutant: the loop stops after the first future.
LoopExhaustedEarly == yielded # {}

\* as_completed(futures) has handed out every future.
LoopExhausted == yielded = DOMAIN jobs

\* The loop is exhausted: every future was handed out, so the executor has
\* nothing left to wait for and all_segments is returned.
SchedulerReturn ==
  /\ pc = "as_completed"
  /\ LoopExhausted
  /\ pc' = "merge"
  /\ UNCHANGED <<merger, twin>>
  /\ UNCHANGED <<inputs, files, dirs, num_chunks, i, split_chunks, chunks,
                 jobs, yielded, all_segments, completed, merged, events, error,
                 result, calls, extracted, del_failed>>

\* Mutant: the executor is shut down without waiting (wait=False).
JobsDoneNoWait == TRUE

\* ThreadPoolExecutor.__exit__ is shutdown(wait=True): it returns once every
\* submitted job, queued ones included, has run.
JobsDone == \A k \in DOMAIN jobs : Finished(k)

\* The with block is left by an exception: executor.shutdown(wait=True)
\* returns once every submitted job has run, then the exception propagates.
ExecutorExit ==
  /\ pc = "shutdown"
  /\ JobsDone
  /\ pc' = "finally"
  /\ UNCHANGED <<merger, twin>>
  /\ UNCHANGED <<inputs, files, dirs, num_chunks, i, split_chunks, chunks,
                 jobs, yielded, all_segments, completed, merged, events, error,
                 result, calls, extracted, del_failed>>

\* ------------------------------------------------------------ merging, done

\* merge_segments: the merging event, the sort, the merge, the reindex.
Merge ==
  /\ pc = "merge"
  /\ events' = Notified(Progress(0, 0, 0, "merging"))
  /\ UNCHANGED <<merger, twin>>
  /\ UNCHANGED <<inputs, files, dirs, num_chunks, i, split_chunks, chunks,
                 jobs, yielded, all_segments, completed, result, calls,
                 extracted, del_failed>>
  /\ \E raised \in SinkRaises :
       IF raised
       THEN Raise("SinkError") /\ UNCHANGED merged
       ELSE /\ merged' = MergeSegments(all_segments)
            /\ pc' = "done"
            /\ UNCHANGED error

\* The done event and return merged.
Done ==
  /\ pc = "done"
  /\ events' = Notified(Progress(Len(chunks), Len(chunks), 0, "done"))
  /\ UNCHANGED <<merger, twin>>
  /\ UNCHANGED <<inputs, files, dirs, num_chunks, i, split_chunks, chunks,
                 jobs, yielded, all_segments, completed, merged, calls,
                 extracted, del_failed>>
  /\ \E raised \in SinkRaises :
       IF raised
       THEN Raise("SinkError") /\ UNCHANGED result
       ELSE /\ result' = merged
            /\ pc' = "finally"
            /\ UNCHANGED error

\* ------------------------------------------------------------ cleanup

\* Mutant: the chunk of index 0 is always skipped.
SkippedFirst(chunk) == chunk.index = 0

\* cleanup_chunks skips a chunk: index 0 and a path that does not end with
\* chunk_0000.mp3.
Skipped(chunk) == chunk.index = 0 /\ ~EndsWithChunk0(chunk.path)

\* The paths cleanup_chunks calls os.remove on.
Removable(cs, fs) ==
  {cs[k].path : k \in {j \in 1..Len(cs) : ~Skipped(cs[j]) /\ cs[j].path \in fs}}

\* The directory cleanup_chunks calls rmdir on, if any: the parent of the first
\* chunk when its path contains "chunk_", when it exists and holds no file.
EmptyChunkDirs(cs, fs, ds) ==
  IF cs # <<>> /\ HasChunkToken(cs[1].path)
  THEN {d \in {Parent(cs[1].path)} \cap ds : \A f \in fs : Parent(f) # d}
  ELSE {}

\* The sets of paths on which os.remove may raise in one cleanup.
RemoveFailures(paths) ==
  {S \in SUBSET paths : Cardinality(S) <= MaxRemoveFailures}

\* Mutant: cleanup only when no exception is in flight (no finally).
CleanupRunsOnSuccess(flag, cs) == flag /\ cs # <<>> /\ error = "none"

\* if cleanup and chunks
CleanupRuns(flag, cs) == flag /\ cs # <<>>

\* Mutant: a deletion that fails raises out of cleanup_chunks.
CleanupErrorRaised(failed) == IF failed # {} THEN "OSError" ELSE error

\* except Exception: print(...) / pass: the exception in flight (or none)
\* is what it was before cleanup_chunks, whatever deletions failed.
CleanupError(failed) == error

\* The finally block: cleanup_chunks removes the chunk files (an os.remove that
\* raises is logged and the file stays), removes the scratch directory if
\* empty, and transcribe_audio returns or lets the exception out.
Finally ==
  /\ pc = "finally"
  /\ UNCHANGED <<merger, twin>>
  /\ UNCHANGED <<inputs, num_chunks, i, split_chunks, chunks, jobs, yielded,
                 all_segments, completed, merged, events, result, calls,
                 extracted>>
  /\ IF CleanupRuns(cleanup, chunks)
     THEN \E failed \in RemoveFailures(Removable(chunks, files)) :
            LET left == files \ (Removable(chunks, files) \ failed)
                empty == EmptyChunkDirs(chunks, left, dirs)
            IN  /\ files' = left
                /\ \E rmdir_fails \in SUBSET empty :
                     /\ dirs' = dirs \ (empty \ rmdir_fails)
                     /\ del_failed' = failed \cup rmdir_fails
                     /\ error' = CleanupError(failed \cup rmdir_fails)
     ELSE UNCHANGED <<files, dirs, del_failed, error>>
  /\ pc' = IF error' = "none" THEN "returned" ELSE "raised"

\* ------------------------------------------------------------ specification

Next ==
  \/ SplitAudio
  \/ ExtractChunk
  \/ Dispatch
  \/ FastTranscribe
  \/ \E k \in 1..(MaxChunks + 1) : WorkerStart(k)
  \/ \E k \in 1..(MaxChunks + 1) : WorkerFinish(k)
  \/ \E k \in 1..(MaxChunks + 1) : Collect(k)
  \/ SchedulerReturn
  \/ ExecutorExit
  \/ Merge
  \/ Done
  \/ Finally

Spec == Init /\ [][Next]_vars

\* Every step of the call but the one of merge_segments.
Steps ==
  \/ SplitAudio
  \/ ExtractChunk
  \/ Dispatch
  \/ FastTranscribe
  \/ \E k \in 1..(MaxChunks + 1) : WorkerStart(k)
  \/ \E k \in 1..(MaxChunks + 1) : WorkerFinish(k)
  \/ \E k \in 1..(MaxChunks + 1) : Collect(k)
  \/ SchedulerReturn
  \/ ExecutorExit
  \/ Done
  \/ Finally

\* merge_segments returns or raises: the call does not stay at its merge
\* step.  This is WF_vars(Merge) written without ENABLED: Merge is enabled
\* exactly where pc = "merge", and every Merge step leaves that place.
MergeEnds == []<>(pc # "merge")

\* The threads are scheduled and what they wait for returns (ffprobe,
\* ffmpeg, the provider calls, the sink): while some thread of the call can
\* take a step, a step is taken.
Fairness == WF_vars(Steps) /\ MergeEnds

SpecLive == Spec /\ Fairness

\* ------------------------------------------------------------ _merge_short_segments, step by step

\* The times of the segments given to the merger, around its thresholds:
\* durations 1 and 2, gaps 0 and 1, merged durations 15 and 16.
MergeTimes == {0, 1, 2, MaxMergedDuration + 1}

\* Their texts: a fragment, a sentence end, an empty text.
MergeTexts == {<<"a">>, <<"b", ".">>, <<>>}

\* The segment dicts with start_time <= end_time.
MergeDicts ==
  {d \in {[index |-> 0, start_time |-> s, end_time |-> e, text |-> t,
           chunk_index |-> 0] :
             s \in MergeTimes, e \in MergeTimes, t \in MergeTexts} :
     d.start_time <= d.end_time}

\* The lists of n dicts sorted by start_time, as merge_segments passes them on.
MergeInputs(n) ==
  {g \in [1..n -> MergeDicts] :
     \A k \in 1..(n - 1) : g[k].start_time <= g[k + 1].start_time}

\* index = position in the list
Indexed(list) == [k \in 1..Len(list) |-> [list[k] EXCEPT !.index = k - 1]]

\* transcribe_audio is not being called.
NoInvocation ==
  /\ audio_path = <<NameA>>
  /\ probe = 0
  /\ max_concurrent = MAX_CONCURRENT_CHUNKS
  /\ cleanup = TRUE
  /\ sink = "none"
  /\ files = {}
  /\ dirs = {TempDir}
  /\ pc = "idle"
  /\ num_chunks = 0
  /\ i = 0
  /\ split_chunks = <<>>
  /\ chunks = <<>>
  /\ jobs = <<>>
  /\ yielded = {}
  /\ all_segments = <<>>
  /\ completed = 0
  /\ merged = <<>>
  /\ events = <<>>
  /\ error = "none"
  /\ result = <<>>
  /\ calls = <<>>
  /\ extracted = {}
  /\ del_failed = {}

\* _merge_short_segments(segments) is entered with merged = [], current = None.
InitMerge ==
  /\ NoInvocation
  /\ TwinIdle
  /\ ms_pc = "loop"
  /\ \E n \in 0..MaxSegs : \E list \in MergeInputs(n) :
       ms_segments = Indexed(list)
  /\ ms_pos = 0
  /\ ms_current = <<>>
  /\ ms_merged = <<>>
  /\ ms_runs = <<>>

\* The position of the first input element current was built from.
RunFirst == IF ms_runs = <<>> THEN 1 ELSE ms_runs[Len(ms_runs)][2] + 1

\* One iteration of "for seg in segments": the first element becomes current;
\* later ones extend current or replace it after current is appended.
MergeIteration ==
  /\ ms_pc = "loop"
  /\ ms_pos < Len(ms_segments)
  /\ ms_pos' = ms_pos + 1
  /\ LET seg == ms_segments[ms_pos + 1]
     IN  IF ms_current = <<>>
         THEN /\ ms_current' = <<seg>>
              /\ UNCHANGED <<ms_merged, ms_runs>>
         ELSE IF ShouldMerge(ms_current[1], seg)
         THEN /\ ms_current' = <<Extend(ms_current[1], seg)>>
              /\ UNCHANGED <<ms_merged, ms_runs>>
         ELSE /\ ms_merged' = Append(ms_merged, ms_current[1])
              /\ ms_runs' = Append(ms_runs, <<RunFirst, ms_pos>>)
              /\ ms_current' = <<seg>>
  /\ UNCHANGED <<ms_pc, ms_segments, pipeline, twin>>

\* After the loop (or at once for an empty list): the last current is
\* appended and merged is returned.
MergeReturn ==
  /\ ms_pc = "loop"
  /\ ms_pos = Len(ms_segments)
  /\ ms_pc' = "returned"
  /\ IF ms_current # <<>>
     THEN /\ ms_merged' = Append(ms_merged, ms_current[1])
          /\ ms_runs' = Append(ms_runs, <<RunFirst, ms_pos>>)
     ELSE UNCHANGED <<ms_merged, ms_runs>>
  /\ UNCHANGED <<ms_segments, ms_pos, ms_current, pipeline, twin>>

NextMerge ==
  \/ MergeIteration
  \/ MergeReturn

SpecMerge == InitMerge /\ [][NextMerge]_vars

\* ------------------------------------------------------------ both together

\* A call of transcribe_audio, or a call of _merge_short_segments followed
\* step by step on a list of its own.
InitAny == Init \/ InitMerge

NextAny == Next \/ NextMerge

SpecAny == InitAny /\ [][NextAny]_vars

\* ------------------------------------------------------------ two concurrent calls

\* Two calls of transcribe_audio_chunked run at the same time, in two threads,
\* on the singleton service: each splits its source, has its chunks
\* transcribed in chunk order and cleans up.  Progress events, segment lists
\* and the workers of each call are left out: only the chunk files matter.

DirX == <<"x">>

NameB == <<"b", ".mp3">>

\* The sources of the two calls: "a.mp3", "x/a.mp3", "b.mp3".
TwinPaths == { <<NameA>>, <<DirX, NameA>>, <<NameB>> }

\* What ffprobe reports for both sources: a window and a half, two chunks.
TwinDuration == 3 * (DEFAULT_CHUNK_DURATION \div 2)

Calls == {1, 2}

Other(t) == 3 - t

\* The record of tw_disk for path p, if any.
OnDisk(p) == {f \in tw_disk : f.path = p}

InitTwo ==
  /\ NoInvocation
  /\ MergerIdle
  /\ tw_path \in {p \in [Calls -> TwinPaths] : p[1] # p[2]}
  /\ tw_pc = [t \in Calls |-> "split"]
  /\ tw_chunks = [t \in Calls |-> <<>>]
  /\ tw_next = [t \in Calls |-> 1]
  /\ tw_disk = {}
  /\ tw_interference = {}

\* One iteration of split_audio's loop in call t (ffmpeg -y writes the chunk
\* file, replacing a file of that name), its RuntimeError, or its return.
TwinExtract(t) ==
  /\ tw_pc[t] = "split"
  /\ UNCHANGED <<pipeline, merger, tw_path, tw_next>>
  /\ LET k == Len(tw_chunks[t])
         path == ChunkFile(ChunkDir(PathStr(tw_path[t])), k)
     IN  IF LoopEnds(k, NumChunks(TwinDuration), TwinDuration)
         THEN /\ tw_pc' = [tw_pc EXCEPT ![t] = "transcribe"]
              /\ UNCHANGED <<tw_chunks, tw_disk, tw_interference>>
         ELSE \/ /\ tw_disk' = (tw_disk \ OnDisk(path))
                                  \cup {[path |-> path, by |-> t]}
                 /\ tw_interference' =
                      IF \E f \in OnDisk(path) : f.by = Other(t)
                      THEN tw_interference \cup {"overwritten"}
                      ELSE tw_interference
                 /\ tw_chunks' =
                      [tw_chunks EXCEPT ![t] =
                         Append(@, ChunkInfo(k, path, ChunkStart(k),
                                             ChunkLen(k, TwinDuration)))]
                 /\ UNCHANGED tw_pc
              \/ /\ tw_chunks' = [tw_chunks EXCEPT ![t] = <<>>]
                 /\ tw_pc' = [tw_pc EXCEPT ![t] = "raised"]
                 /\ UNCHANGED <<tw_disk, tw_interference>>

\* The provider call for the next chunk of call t: it reads the file at the
\* chunk's path, or raises FileNotFoundError when the file is gone; after the
\* last chunk the scheduler returns.
TwinTranscribe(t) ==
  /\ tw_pc[t] = "transcribe"
  /\ UNCHANGED <<pipeline, merger, tw_path, tw_chunks, tw_disk>>
  /\ IF tw_next[t] > Len(tw_chunks[t])
     THEN /\ tw_pc' = [tw_pc EXCEPT ![t] = "finally"]
          /\ UNCHANGED <<tw_next, tw_interference>>
     ELSE LET path == tw_chunks[t][tw_next[t]].path
          IN  IF OnDisk(path) = {}
              THEN /\ tw_pc' = [tw_pc EXCEPT ![t] = "finally"]
                   /\ UNCHANGED <<tw_next, tw_interference>>
              ELSE /\ tw_next' = [tw_next EXCEPT ![t] = @ + 1]
                   /\ tw_interference' =
                        IF \E f \in OnDisk(path) : f.by = Other(t)
                        THEN tw_interference \cup {"transcribed"}
                        ELSE tw_interference
                   /\ UNCHANGED tw_pc

\* The finally block of call t (cleanup=True): cleanup_chunks removes every
\* chunk file of its list that exists.
TwinCleanup(t) ==
  /\ tw_pc[t] = "finally"
  /\ UNCHANGED <<pipeline, merger, tw_path, tw_chunks, tw_next>>
  /\ LET gone == {f \in tw_disk :
                    \E k \in 1..Len(tw_chunks[t]) :
                      /\ ~Skipped(tw_chunks[t][k])
                      /\ tw_chunks[t][k].path = f.path}
     IN  /\ tw_disk' = tw_disk \ gone
         /\ tw_interference' =
              IF \E f \in gone : f.by = Other(t)
              THEN tw_interference \cup {"deleted"}
              ELSE tw_interference
  /\ tw_pc' = [tw_pc EXCEPT ![t] = "ended"]

NextTwo ==
  \/ \E t \in Calls : TwinExtract(t)
  \/ \E t \in Calls : TwinTranscribe(t)
  \/ \E t \in Calls : TwinCleanup(t)

SpecTwo == InitTwo /\ [][NextTwo]_vars

\* ------------------------------------------------------------ properties

Returned == pc = "returned"

Raised == pc = "raised"

\* transcribe_chunks_concurrent was entered with two or more chunks.
SplitRun == Len(chunks) >= 2 /\ jobs # <<>>

\* The segments of all futures, in chunk order.
RECURSIVE JobSegments(_)
JobSegments(n) ==
  IF n = 0 THEN <<>> ELSE JobSegments(n - 1) \o jobs[n].segs

BagOfSeq(s) ==
  [x \in {s[k] : k \in DOMAIN s} |-> Cardinality({k \in DOMAIN s : s[k] = x})]

Ceil(a, b) == (a + b - 1) \div b

Min(a, b) == IF a <= b THEN a ELSE b

RECURSIVE SumDurations(_, _)
SumDurations(cs, n) ==
  IF n = 0 THEN 0 ELSE SumDurations(cs, n - 1) + cs[n].duration

\* C1: while transcribe_chunks_concurrent runs, the number of calls of the
\* provider in progress at once never exceeds max_concurrent.
C1_BoundedConcurrency == Cardinality(Running) <= max_concurrent

\* C1 witness: the limit binds: max_concurrent calls run and a job waits.
C1_Witness ==
  /\ Cardinality(Running) = max_concurrent
  /\ \E k \in DOMAIN jobs : jobs[k].st = "queued"

\* C2: the list transcribe_audio returns has index 0..n-1 in list order and
\* start_time non-decreasing, whatever order the jobs completed in.
C2_OrderedOutput ==
  Returned =>
    /\ \A k \in 1..Len(result) : result[k].index = k - 1
    /\ \A k \in 1..(Len(result) - 1) :
         result[k].start_time <= result[k + 1].start_time

\* C2 witness: a split run returned two or more segments although the jobs
\* completed out of chronological order.
C2_Witness ==
  /\ Returned
  /\ SplitRun
  /\ Len(result) >= 2
  /\ all_segments # SortedByStart(all_segments)

\* A job whose provider call raised was handed out by the as_completed loop.
FailureRetrieved(k) == k \in yielded /\ jobs[k].st = "failed"

\* C3 as stated, for the default cleanup=True: if a chunk's provider call
\* raises in a split run, transcribe_audio raises the job's error class,
\* returns no list, and every extracted chunk file is gone when the error
\* reaches the caller.
C3_Original ==
  (/\ pc \in {"returned", "raised"}
   /\ cleanup
   /\ \E k \in DOMAIN jobs : jobs[k].st = "failed")
    => /\ Raised
       /\ error \in {jobs[k].err : k \in {j \in DOMAIN jobs : jobs[j].st = "failed"}}
       /\ result = <<>>
       /\ extracted \cap files = {}

\* C3 amended: if the as_completed loop retrieves a failed job (no exception of
\* the progress sink came first), transcribe_audio raises that job's error
\* class and returns no list; with cleanup enabled, every extracted chunk file
\* whose os.remove did not raise is gone when the error reaches the caller.
C3_FailurePropagates ==
  \A k \in DOMAIN jobs :
    (pc \in {"returned", "raised"} /\ FailureRetrieved(k))
      => /\ Raised
         /\ error = jobs[k].err
         /\ result = <<>>
         /\ cleanup => (extracted \cap files) \subseteq del_failed

\* C3 witness: a split run raised a job's error after cleanup removed the
\* chunk files it had extracted.
C3_Witness ==
  /\ Raised
  /\ SplitRun
  /\ \E k \in DOMAIN jobs : FailureRetrieved(k)
  /\ cleanup
  /\ extracted # {}
  /\ extracted \cap files = {}

\* C4: if extraction of chunk k fails after chunks 0..k-1 were extracted, none
\* of the extracted chunk files remains when transcribe_audio raises (stated
\* here for cleanup enabled, where no os.remove raised).
C4_CleanupAfterExtractionFailure ==
  (Raised /\ error = "RuntimeError" /\ cleanup /\ del_failed = {})
    => extracted \cap files = {}

\* C5: the source audio file is never deleted: once split_audio has found it,
\* it exists in every later state, whatever its name and duration.
C5_SourceKept ==
  (pc # "start" /\ error # "FileNotFoundError") => PathStr(audio_path) \in files

\* C6: when all jobs succeed, the list transcribe_chunks_concurrent returns
\* holds every shifted segment of every chunk exactly once and nothing else,
\* and the provider was called exactly once per chunk.
C6_ExactCollection ==
  pc = "merge" =>
    /\ BagOfSeq(all_segments) = BagOfSeq(JobSegments(Len(jobs)))
    /\ \A k \in DOMAIN chunks :
         Cardinality({c \in DOMAIN calls : calls[c] = chunks[k].path}) = 1
    /\ Len(calls) = Len(chunks)

\* C6 witness: the scheduler returned three or more segments collected in an
\* order that is not the chunk order.
C6_Witness ==
  /\ pc = "merge"
  /\ SplitRun
  /\ Len(all_segments) >= 3
  /\ all_segments # JobSegments(Len(jobs))

\* C7: the final output is the same for every completion order: segments with
\* equal start_time are ordered by chunk index, so the output equals the merge
\* of the per-chunk results taken in chunk order.
C7_DeterministicOrder ==
  (Returned /\ jobs # <<>>) => result = MergeSegments(JobSegments(Len(jobs)))

\* C8: for total_duration > chunk_window split_audio returns
\* ceil(total_duration / chunk_window) chunks, chunk i with index i, offset
\* i * chunk_window and duration min(chunk_window, total - offset) > 0; the
\* chunks tile [0, total_duration) and their durations sum to it.
C8_SplitTiles ==
  (pc = "dispatch" /\ probe > chunk_duration) =>
    /\ Len(chunks) = Ceil(probe, chunk_duration)
    /\ \A k \in 1..Len(chunks) :
         /\ chunks[k].index = k - 1
         /\ chunks[k].start_time = (k - 1) * chunk_duration
         /\ chunks[k].duration > 0
         /\ chunks[k].duration = Min(chunk_duration, probe - (k - 1) * chunk_duration)
         /\ k < Len(chunks) =>
              chunks[k].start_time + chunks[k].duration = chunks[k + 1].start_time
    /\ chunks[Len(chunks)].start_time + chunks[Len(chunks)].duration = probe
    /\ SumDurations(chunks, Len(chunks)) = probe

\* C8 witness: a duration that is an exact multiple of the window was split.
C8_Witness ==
  /\ pc = "dispatch"
  /\ probe = 2 * chunk_duration
  /\ Len(chunks) = 2

\* C9: for every audio_path with probed duration <= chunk_window the fast path
\* is taken: nothing is extracted, the scheduler and the merger do not run,
\* and the provider is called exactly once, on the source file.
C9_FastPath ==
  (probe <= chunk_duration) =>
    /\ pc \notin {"extract", "as_completed", "shutdown", "merge", "done"}
    /\ jobs = <<>>
    /\ extracted = {}
    /\ Returned => calls = <<PathStr(audio_path)>>

\* C10: no record of the list transcribe_audio returns carries chunk_index, on
\* the no-split path and on the split path, merged records or not.
C10_NoChunkTag ==
  Returned => \A k \in 1..Len(result) : "chunk_index" \notin DOMAIN result[k]

\* C10 witness: a split run returned a merged record and one never merged.
C10_Witness ==
  /\ Returned
  /\ SplitRun
  /\ Len(result) < Len(all_segments)
  /\ \E k \in 1..Len(result) : \E j \in 1..Len(all_segments) :
       /\ result[k].text = all_segments[j].text
       /\ result[k].start_time = all_segments[j].start_time
       /\ result[k].end_time = all_segments[j].end_time

\* C11: for every chunk and every segment the provider returned for it,
\* transcribe_chunk yields a record whose start_time and end_time are the
\* chunk-local values plus the chunk's offset, whose text is the provider's
\* and whose chunk_index is the chunk's index; the number and the order of
\* the chunk's segments are kept.
C11_OffsetShift ==
  \A k \in DOMAIN jobs :
    jobs[k].st = "ok" =>
      /\ Len(jobs[k].segs) = Len(jobs[k].raw)
      /\ \A j \in 1..Len(jobs[k].raw) :
           /\ jobs[k].segs[j].start_time =
                jobs[k].raw[j].start_time + chunks[k].start_time
           /\ jobs[k].segs[j].end_time =
                jobs[k].raw[j].end_time + chunks[k].start_time
           /\ jobs[k].segs[j].text = jobs[k].raw[j].text
           /\ jobs[k].segs[j].chunk_index = chunks[k].index

\* C11 witness: the job of a chunk with a positive offset returned segments.
C11_Witness ==
  \E k \in DOMAIN jobs :
    /\ jobs[k].st = "ok"
    /\ chunks[k].start_time > 0
    /\ Len(jobs[k].raw) >= 2
    /\ jobs[k].segs[1].start_time = chunks[k].start_time

\* The step-by-step run of the merger returns what MergeShortSegments gives.
MergerAgrees ==
  ms_pc = "returned" => ms_merged = MergeShortSegments(ms_segments)

\* The text, stripped, is empty or its last character is no sentence ending.
NoTerminalPunctuation(t) ==
  LET s == Strip(t) IN s = <<>> \/ s[Len(s)] \notin SentenceEndings

\* C12: in the merger's single pass, current absorbs the next segment seg
\* exactly when current is shorter than 2 s, current's text does not end with
\* terminal punctuation (an empty text does not), seg.end - current.start is
\* at most 15 s and seg.start - current.end is below 1 s; otherwise current
\* is emitted and seg becomes current.  The test reads the accumulated
\* current.
C12_MergeRule ==
  [][(ms_pc = "loop" /\ ms_pos' = ms_pos + 1 /\ ms_current # <<>>) =>
       LET current == ms_current[1]
           seg == ms_segments[ms_pos + 1]
           absorbs ==
             /\ current.end_time - current.start_time < 2
             /\ NoTerminalPunctuation(current.text)
             /\ seg.end_time - current.start_time <= 15
             /\ seg.start_time - current.end_time < 1
       IN  IF absorbs
           THEN /\ ms_merged' = ms_merged
                /\ ms_current'[1].start_time = current.start_time
                /\ ms_current'[1].end_time = seg.end_time
           ELSE /\ ms_merged' = Append(ms_merged, current)
                /\ ms_current' = <<seg>>]_vars

\* C12 witness: a chain of two segments stopped only because the accumulated
\* duration reached 2 s: the third segment is close, the accumulated text has
\* no terminal punctuation and the merged duration would be within 15 s.
C12_Witness ==
  /\ ms_pc = "returned"
  /\ ms_runs = << <<1, 2>>, <<3, 3>> >>
  /\ ms_merged[1].end_time - ms_merged[1].start_time = 2
  /\ ms_segments[1].end_time - ms_segments[1].start_time < 2
  /\ NoTerminalPunctuation(ms_merged[1].text)
  /\ ms_segments[3].end_time - ms_merged[1].start_time <= 15
  /\ ms_segments[3].start_time - ms_merged[1].end_time < 1

\* C13: merging is idempotent: for a list sorted by start_time with
\* start_time <= end_time, the merger applied to its own output returns that
\* output, for _merge_short_segments and for the sort, merge and reindex of
\* merge_segments.
C13_Idempotent ==
  ms_pc = "returned" =>
    /\ MergeShortSegments(ms_merged) = ms_merged
    /\ MergeSegments(Reindex(ms_merged)) = Reindex(ms_merged)

\* C13 witness: the first pass merged something and left two records that
\* are less than 1 s apart.
C13_Witness ==
  /\ ms_pc = "returned"
  /\ Len(ms_merged) >= 2
  /\ Len(ms_merged) < Len(ms_segments)
  /\ ms_merged[2].start_time - ms_merged[1].end_time < 1

\* C14: merging preserves coverage: the output records correspond, in order,
\* to runs of consecutive input segments that partition the input; a record
\* has the start_time of its run's first segment and the end_time of its
\* run's last segment, and a run ends where the next segment was not
\* absorbed.
C14_Coverage ==
  ms_pc = "returned" =>
    /\ Len(ms_runs) = Len(ms_merged)
    /\ (ms_segments = <<>>) = (ms_merged = <<>>)
    /\ \A j \in 1..Len(ms_runs) :
         /\ ms_runs[j][1] = (IF j = 1 THEN 1 ELSE ms_runs[j - 1][2] + 1)
         /\ ms_runs[j][1] <= ms_runs[j][2]
         /\ j = Len(ms_runs) => ms_runs[j][2] = Len(ms_segments)
         /\ ms_merged[j].start_time = ms_segments[ms_runs[j][1]].start_time
         /\ ms_merged[j].end_time = ms_segments[ms_runs[j][2]].end_time
         /\ j < Len(ms_runs) =>
              ~ShouldMerge(ms_merged[j], ms_segments[ms_runs[j][2] + 1])

\* C14 witness: three segments gave a merged record that ends where its
\* second segment ends, followed by a record of one segment.
C14_Witness ==
  /\ ms_pc = "returned"
  /\ ms_runs = << <<1, 2>>, <<3, 3>> >>
  /\ ms_merged[1].end_time = ms_segments[2].end_time
  /\ ms_segments[2].end_time # ms_segments[1].end_time

\* C15: if the probe cannot determine the duration of an existing source, or
\* reports zero, transcribe_audio fails with an error before any chunk is
\* extracted and before the provider is called once.
C15_ProbeFailureAborts ==
  (probe = 0 /\ pc # "start" /\ error # "FileNotFoundError") =>
    /\ pc \in {"finally", "raised"}
    /\ error = "ValueError"
    /\ result = <<>>
    /\ extracted = {}
    /\ dirs = {TempDir}
    /\ chunks = <<>>
    /\ jobs = <<>>
    /\ calls = <<>>

\* C15 witness: the call raised ValueError for a source that exists.
C15_Witness ==
  /\ Raised
  /\ probe = 0
  /\ PathStr(audio_path) \in files
  /\ error = "ValueError"

\* C16: splitting is fail-fast: when the extraction of chunk k fails,
\* split_audio raises at once: the chunks extracted are exactly those with
\* index below k, no chunk list is returned, and the provider is not called
\* for any chunk of the invocation.
C16_FailFastSplit ==
  error = "RuntimeError" =>
    /\ pc \in {"finally", "raised"}
    /\ extracted =
         {ChunkFile(ChunkDir(PathStr(audio_path)), j) : j \in 0..(i - 1)}
    /\ chunks = <<>>
    /\ jobs = <<>>
    /\ calls = <<>>
    /\ result = <<>>

\* C16 witness: chunk 1 of three failed after chunk 0 was extracted.
C16_Witness ==
  /\ Raised
  /\ error = "RuntimeError"
  /\ i = 1
  /\ num_chunks = 3
  /\ Cardinality(extracted) = 1

\* C17 as stated: as soon as a job's failure is retrieved, the scheduler
\* propagates it to its caller without waiting for sibling jobs: it is never
\* held in the executor's shutdown while a sibling is queued or running.
C17_Original ==
  (pc = "shutdown" /\ \E k \in DOMAIN jobs : FailureRetrieved(k))
    => \A j \in DOMAIN jobs : Finished(j)

\* C17 amended: when the loop has retrieved a job's failure, that error
\* reaches the scheduler's caller only after every sibling job has finished;
\* no sibling is cancelled (each chunk's provider call was made and ended),
\* and the siblings' results are never returned.
C17_FailureAfterSiblings ==
  \A k \in DOMAIN jobs :
    (pc \in {"finally", "returned", "raised"} /\ FailureRetrieved(k)) =>
      /\ \A j \in DOMAIN jobs : Finished(j)
      /\ Len(calls) = Len(chunks)
      /\ error = jobs[k].err
      /\ pc # "returned"
      /\ result = <<>>

\* C17 witness: the error reached the caller after the failed job was the
\* only one collected and its two siblings had completed successfully.
C17_Witness ==
  /\ Raised
  /\ Len(jobs) = 3
  /\ \E k \in DOMAIN jobs :
       /\ FailureRetrieved(k)
       /\ yielded = {k}
       /\ \A j \in DOMAIN jobs \ {k} :
            jobs[j].st = "ok" /\ jobs[j].segs # <<>>

IsTranscribing(ev) == ev.status = "transcribing"

\* The transcribing events the sink was given, in order.
TranscribingEvents == SelectSeq(events, IsTranscribing)

\* The number of events of the list evs whose current_chunk is idx.
EventsFor(evs, idx) ==
  Cardinality({n \in 1..Len(evs) : evs[n].current_chunk = idx})

\* The jobs the as_completed loop took a result from.
Collected == {k \in yielded : jobs[k].st = "ok"}

\* What C18 says of the events that were emitted: the n-th transcribing event
\* of the scheduler has completed_chunks = n, at most total_chunks, and names
\* a chunk whose job completed; in a run without failure every chunk index
\* is named exactly once.
CompletionEventsCount ==
  LET evs == TranscribingEvents
  IN  /\ \A n \in 1..Len(evs) :
           /\ evs[n].completed_chunks = n
           /\ evs[n].completed_chunks <= evs[n].total_chunks
           /\ \E k \in DOMAIN jobs :
                /\ jobs[k].st = "ok"
                /\ evs[n].current_chunk = chunks[k].index
      /\ \A k \in DOMAIN jobs : EventsFor(evs, chunks[k].index) <= 1
      /\ pc \in {"merge", "done", "returned"} =>
           \A k \in DOMAIN jobs : EventsFor(evs, chunks[k].index) = 1

\* C18 as stated, with a sink that has not raised: every chunk job that
\* completed successfully has produced exactly one transcribing event by the
\* time the scheduler has returned or raised, and the events count as
\* described.
C18_Original ==
  (sink # "none" /\ error # "SinkError" /\ jobs # <<>>) =>
    /\ CompletionEventsCount
    /\ pc \in {"merge", "done", "finally", "returned", "raised"} =>
         LET evs == TranscribingEvents
         IN  \A k \in DOMAIN jobs :
               jobs[k].st = "ok" => EventsFor(evs, chunks[k].index) = 1

\* C18 amended: every successful completion that the as_completed loop
\* collects produces exactly one transcribing event (a completion after the
\* loop has retrieved a failure or the sink has raised is not collected and
\* produces none), and the events count as described.
C18_CompletionEvents ==
  (sink # "none" /\ jobs # <<>>) =>
    LET evs == TranscribingEvents
    IN  /\ CompletionEventsCount
        /\ Len(evs) = Cardinality(Collected)
        /\ Len(evs) = completed
        /\ \A k \in DOMAIN jobs :
             EventsFor(evs, chunks[k].index) =
               (IF k \in Collected THEN 1 ELSE 0)

\* C18 witness: three chunks were collected without failure, the last chunk
\* first.
C18_Witness ==
  /\ pc = "merge"
  /\ sink # "none"
  /\ Len(chunks) = 3
  /\ Len(TranscribingEvents) = 3
  /\ TranscribingEvents[1].current_chunk = 2

\* C19: with a progress sink, a call that fails on a probe, extraction or
\* transcription error has given the sink an event of status error, and a
\* call that succeeds has given it a done event.
C19_TerminalEvent ==
  sink # "none" =>
    /\ (Raised /\ error \in {"ValueError", "RuntimeError", "ProviderError"})
         => \E n \in 1..Len(events) : events[n].status = "error"
    /\ Returned => \E n \in 1..Len(events) : events[n].status = "done"

\* The statuses of the events the sink was given, in order.
Phases == [n \in 1..Len(events) |-> events[n].status]

Rank(status) ==
  CASE status = "chunking" -> 1
    [] status = "transcribing" -> 2
    [] status = "merging" -> 3
    [] status = "done" -> 4
    [] OTHER -> 0

HasPhase(status) == \E n \in 1..Len(events) : events[n].status = status

\* chunking, n times transcribing, merging, done
ExpectedPhases(n) ==
  <<"chunking">> \o [k \in 1..n |-> "transcribing"] \o <<"merging", "done">>

\* What C20 says of the order: the events come in the order chunking,
\* transcribing, merging, done, nothing after done; a successful run of
\* N >= 2 chunks gives exactly chunking, N times transcribing, merging, done;
\* no merging or done event before all chunks of the scheduler completed.
PhaseOrder ==
  /\ \A n \in 2..Len(events) :
       /\ Rank(events[n - 1].status) >= 1
       /\ Rank(events[n - 1].status) <= Rank(events[n].status)
       /\ events[n - 1].status # "done"
       /\ events[n - 1].status = events[n].status
            => events[n].status = "transcribing"
  /\ (Returned /\ Len(chunks) >= 2) => Phases = ExpectedPhases(Len(chunks))
  /\ (jobs # <<>> /\ (HasPhase("merging") \/ HasPhase("done"))) =>
       /\ \A k \in DOMAIN jobs : jobs[k].st = "ok"
       /\ Len(TranscribingEvents) = Len(chunks)

\* C20 as stated: the order above, and no done event in a run that raises.
C20_Original ==
  sink # "none" =>
    /\ PhaseOrder
    /\ Raised => ~HasPhase("done")

\* C20 amended: the order above, and no done event in a run that raises,
\* unless the exception is the sink's own, raised on the done event.
C20_PhaseOrder ==
  sink # "none" =>
    /\ PhaseOrder
    /\ (error # "none" /\ HasPhase("done")) =>
         /\ error = "SinkError"
         /\ Phases[Len(events)] = "done"
         /\ calls # <<>>

\* C20 witness: a run of three chunks returned after the sink saw chunking,
\* three transcribing events, merging and done.
C20_Witness ==
  /\ Returned
  /\ sink # "none"
  /\ Len(chunks) = 3
  /\ Phases = ExpectedPhases(3)

\* C21: a failure to delete a chunk file or to remove the scratch directory
\* never raises out of cleanup: every other chunk file cleanup is to delete
\* is deleted all the same, and the outcome is what it was before cleanup
\* (the list about to be returned is returned, the error in flight is
\* raised).
C21_CleanupNeverRaises ==
  [][pc = "finally" =>
       /\ error' = error
       /\ result' = result
       /\ pc' = (IF error = "none" THEN "returned" ELSE "raised")
       /\ CleanupRuns(cleanup, chunks) =>
            (Removable(chunks, files) \cap files') \subseteq del_failed']_vars

\* C21 witness: a split run returned its list although one chunk file could
\* not be deleted; another chunk file was deleted.
C21_Witness ==
  /\ Returned
  /\ SplitRun
  /\ result # <<>>
  /\ del_failed \cap extracted # {}
  /\ extracted \ files # {}

\* C22: after a successful split-path run (two or more chunks, cleanup
\* enabled, no deletion failure), when transcribe_audio returns every
\* extracted chunk file, chunk 0 included, is deleted, and the scratch
\* directory of the source is removed if no file is left in it.
C22_ChunksDeleted ==
  (Returned /\ Len(chunks) >= 2 /\ cleanup /\ del_failed = {}) =>
    /\ \A k \in 1..Len(chunks) : chunks[k].path \notin files
    /\ extracted \cap files = {}
    /\ (\A f \in files : Parent(f) # ChunkDir(PathStr(audio_path)))
         => ChunkDir(PathStr(audio_path)) \notin dirs

\* C22 witness: a run of three chunks returned with its three chunk files
\* and its scratch directory gone.
C22_Witness ==
  /\ Returned
  /\ cleanup
  /\ del_failed = {}
  /\ Len(chunks) = 3
  /\ Cardinality(extracted) = 3
  /\ extracted \cap files = {}
  /\ dirs = {TempDir}

WellFormed(seg) == seg.start_time <= seg.end_time

AllWellFormed(list) == \A k \in 1..Len(list) : WellFormed(list[k])

\* C23: the provider's segments having start_time <= end_time, so has every
\* segment at every stage: after the offset shift, in the collected list,
\* after sorting, after each step of the merger (its current and its merged
\* list), in the merged list and in the final output.
C23_StartBeforeEnd ==
  /\ \A k \in DOMAIN jobs :
       AllWellFormed(jobs[k].raw) => AllWellFormed(jobs[k].segs)
  /\ AllWellFormed(all_segments)
  /\ pc = "merge" => AllWellFormed(SortedByStart(all_segments))
  /\ AllWellFormed(merged)
  /\ AllWellFormed(result)
  /\ AllWellFormed(ms_segments) =>
       AllWellFormed(ms_current) /\ AllWellFormed(ms_merged)

\* C23 witness: a merge step moved the end of current backwards, to the end
\* of a segment that ends before the first one does.
C23_Witness ==
  /\ ms_pc = "loop"
  /\ ms_pos = 2
  /\ ms_merged = <<>>
  /\ ms_current[1].end_time < ms_segments[1].end_time
  /\ ms_current[1].start_time = ms_segments[1].start_time

Trimmed(t) == Strip(t) = t

\* C24: the texts given to the merger having no leading and no trailing
\* whitespace (empty texts included), the text of every record it returns,
\* merged or not, has none either.
C24_TrimmedTexts ==
  (ms_pc = "returned"
   /\ \A k \in 1..Len(ms_segments) : Trimmed(ms_segments[k].text))
    => \A j \in 1..Len(ms_merged) : Trimmed(ms_merged[j].text)

\* C25: two concurrent calls on two different source paths use different
\* scratch directories, and neither overwrites a chunk file the other
\* extracted, transcribes a chunk file of the other, or deletes a chunk
\* file of the other.
C25_SeparateScratch ==
  (tw_path # <<>> /\ tw_path[1] # tw_path[2]) =>
    /\ (tw_chunks[1] # <<>> /\ tw_chunks[2] # <<>>) =>
         Parent(tw_chunks[1][1].path) # Parent(tw_chunks[2][1].path)
    /\ tw_interference = {}

\* C26: under fair scheduling of the workers, the probe, every extraction
\* and every provider call terminating, a call of transcribe_audio ends in
\* exactly one way and stays there: it has returned its list with no error,
\* or it has raised.
C26_Terminates ==
  \/ <>[](pc = "returned" /\ error = "none")
  \/ <>[](pc = "raised" /\ error # "none" /\ result = <<>>)

\* C26 witness: a run of three chunks on one worker raised a provider error
\* while futures were left uncollected.
C26_Witness ==
  /\ Raised
  /\ max_concurrent = 1
  /\ Len(chunks) = 3
  /\ error = "ProviderError"
  /\ yielded # DOMAIN jobs

\* C27: once split_audio has returned more than one chunk, every chunking,
\* transcribing and done event the sink was given carries the number of
\* chunks split_audio returned as its total_chunks.
C27_ConsistentTotal ==
  Len(chunks) > 1 =>
    \A n \in 1..Len(events) :
      events[n].status \in {"chunking", "transcribing", "done"}
        => events[n].total_chunks = Len(chunks)

\* C28: when cleanup starts, and when transcribe_audio has returned or
\* raised, no submitted job is queued or running; and no step removes files
\* from the disk while a job is queued or running.
C28_CleanupAfterJobs ==
  /\ [](pc \in {"finally", "returned", "raised"}
          => \A k \in DOMAIN jobs : jobs[k].st \in {"ok", "failed"})
  /\ [][(files \ files' # {})
          => \A k \in DOMAIN jobs : jobs[k].st \in {"ok", "failed"}]_vars

\* C28 witness: a job failed while a sibling was still queued, and cleanup
\* has deleted the chunk files, the sibling's included, after it had run.
C28_Witness ==
  /\ Raised /\ error = "ProviderError" /\ cleanup
  /\ Len(chunks) = 3 /\ max_concurrent = 1
  /\ yielded # DOMAIN jobs
  /\ \A k \in DOMAIN jobs : chunks[k].path \notin files
  /\ Len(calls) = 3

\* The sink raised on the transcribing event of a chunk completion: the
\* exception in flight is the sink's, a future was handed out, and the
\* merging event was never built.
SinkRaisedOnCompletion ==
  /\ error = "SinkError"
  /\ yielded # {}
  /\ \A n \in 1..Len(events) : events[n].status # "merging"

\* C29 as stated, for the default cleanup=True: if the sink raises on a
\* chunk completion, transcribe_audio raises the sink's exception, returns
\* no list, the event the sink raised on is the last one, and every
\* extracted chunk file is gone when the exception reaches the caller.
C29_Original ==
  (SinkRaisedOnCompletion /\ pc \in {"returned", "raised"} /\ cleanup)
    => /\ Raised
       /\ result = <<>>
       /\ events[Len(events)].status = "transcribing"
       /\ extracted \cap files = {}

\* C29 amended: if the sink raises on a chunk completion, no event is built
\* afterwards and the exception in flight stays the sink's; transcribe_audio
\* raises it and returns no list; with cleanup enabled, every extracted
\* chunk file whose os.remove did not raise is gone when it reaches the
\* caller.
C29_SinkFailure ==
  /\ [](SinkRaisedOnCompletion /\ pc \in {"returned", "raised"}
          => /\ Raised
             /\ result = <<>>
             /\ events[Len(events)].status = "transcribing"
             /\ cleanup => (extracted \cap files) \subseteq del_failed)
  /\ [][SinkRaisedOnCompletion
          => (events' = events /\ error' = error /\ result' = <<>>)]_vars

\* C29 witness: the sink raised on the first completion of three chunks; the
\* call raised after the siblings ran and cleanup removed the chunk files.
C29_Witness ==
  /\ Raised
  /\ SinkRaisedOnCompletion
  /\ Len(chunks) = 3
  /\ Cardinality(yielded) = 1
  /\ Len(calls) = 3
  /\ cleanup
  /\ Cardinality(extracted) = 3
  /\ extracted \cap files = {}

\* C30: the sink is called by the coordinating thread only, one event at a
\* time: a step that gives the sink an event appends exactly that one event,
\* is taken where transcribe_audio or the as_completed loop stands, and is
\* not the step of a worker thread (no job starts or ends in it).
C30_SinkInCoordinator ==
  [][events' # events
       => /\ Len(events') = Len(events) + 1
          /\ SubSeq(events', 1, Len(events)) = events
          /\ jobs' = jobs
          /\ pc \in {"start", "dispatch", "fast", "as_completed", "merge", "done"}]_vars

\* C30 witness: with three worker threads, two jobs ended before either was
\* collected; the sink has received both transcribing events, one after the
\* other, while the third job is still running.
C30_Witness ==
  /\ max_concurrent = 3
  /\ Len(chunks) = 3
  /\ Running # {}
  /\ Cardinality(yielded) = 2
  /\ Len(TranscribingEvents) = 2
  /\ TranscribingEvents[1].completed_chunks = 1
  /\ TranscribingEvents[2].completed_chunks = 2

====
